---- MODULE Spec2Model ----
(***************************************************************************)
(* RobotArmScene (src/src/components/arm.tsx): a React component that      *)
(* builds a three.js scene of a 5-joint arm in one effect, keeps joint     *)
(* groups and materials in refs, and updates them in two further effects.  *)
(*                                                                         *)
(* Units: lengths are millimetres (DIMENSIONS is in metres in the source), *)
(* rotations are microradians, colours are the integer value of the hex    *)
(* literal.  An optional value (a prop that may be undefined, a ref slot   *)
(* that may be unset) is a sequence of length 0 or 1.                      *)
(***************************************************************************)
EXTENDS Integers, Sequences, FiniteSets, TLC

None == <<>>
Some(x) == <<x>>

\* ------------------------------------------------------------ bounds
MaxBuilds == 2
MaxRaf == 3

\* ------------------------------------------------------------ constants
JointNames == {"j0", "j1", "j2", "j3", "j4"}
MaterialNames == {"base", "segment1", "segment2", "segment3", "pipette", "joints"}
GeometryNames ==
  {"baseGeometry", "segment1Geometry", "segment2Geometry", "segment3Geometry",
   "segment4Geometry", "shoulderJointGeometry", "elbowJointGeometry",
   "wristJointGeometry", "pipetteJointGeometry"}
MaterialObjects ==
  {"baseMaterial", "segment1Material", "segment2Material", "segment3Material",
   "pipetteMaterial", "jointMaterial"}
\* GridHelper and AxesHelper each create a BufferGeometry and a material.
HelperResources ==
  {"gridHelper.geometry", "gridHelper.material",
   "axesHelper.geometry", "axesHelper.material"}
\* Everything the build effect acquires that has a dispose().
Acquired ==
  GeometryNames \cup MaterialObjects \cup HelperResources \cup {"controls", "renderer"}

DIMENSIONS ==
  [base     |-> [diameter |-> 500, height |-> 200],
   segment1 |-> [width |-> 100, height |-> 100, length |-> 600],
   segment2 |-> [width |-> 80, height |-> 80, length |-> 450],
   segment3 |-> [width |-> 60, height |-> 60, length |-> 250],
   segment4 |-> [diameter |-> 20, height |-> 100]]

\* The pose the build effect uses when jointAngles is not supplied.
HOME_POSE == [j0 |-> 0, j1 |-> 65, j2 |-> 60, j3 |-> 45, j4 |-> 90]
\* The pose the page starts with.
PageDefault == [j0 |-> 0, j1 |-> 75, j2 |-> 45, j3 |-> 15, j4 |-> 10]
ZeroPose == [j0 |-> 0, j1 |-> 0, j2 |-> 0, j3 |-> 0, j4 |-> 0]
Yaw90 == [j0 |-> 90, j1 |-> 0, j2 |-> 0, j3 |-> 0, j4 |-> 0]
Stacked == [j0 |-> 0, j1 |-> 90, j2 |-> 0, j3 |-> 0, j4 |-> 0]
Mixed == [j0 |-> 270, j1 |-> 90, j2 |-> 60, j3 |-> 30, j4 |-> 5]

\* Angle tuples the updater is driven with, and the values of the jointAngles prop.
Poses == {ZeroPose, Yaw90, Stacked, PageDefault, Mixed}
AngleProps == {None} \cup {Some(p) : p \in Poses}

\* The five RobotColor names, an unrecognized name and the empty string.
NamedColors == {"red", "blue", "green", "black", "white"}
Colors == NamedColors \cup {"purple", ""}

\* ------------------------------------------------------------ pure helpers
PiMicro == 3141593

\* degrees * Math.PI / 180, in microradians; the sign is carried as IEEE
\* arithmetic carries it (degToRad(-d) = -degToRad(d)).
degToRad(degrees) ==
  IF degrees >= 0 THEN (degrees * PiMicro) \div 180
  ELSE 0 - (((0 - degrees) * PiMicro) \div 180)

getColorHex(color) ==
  CASE color = "red" -> 16711680     \* 0xff0000
    [] color = "blue" -> 26367       \* 0x0066ff
    [] color = "green" -> 43520      \* 0x00aa00
    [] color = "black" -> 3355443    \* 0x333333
    [] color = "white" -> 16777215   \* 0xffffff
    [] OTHER -> 6710886              \* 0x666666 fallback gray

FallbackGray == getColorHex("no such color")

\* JavaScript truthiness of a color string: only the empty string is falsy.
Truthy(color) == color # ""

Vec(a, b, c) == [x |-> a, y |-> b, z |-> c]

\* jointAngles || { j0: 0, j1: 65, j2: 60, j3: 45, j4: 90 }
currentAngles(ja) == IF ja # None THEN ja[1] ELSE HOME_POSE

\* ------------------------------------------------------------ scene handles
\* A THREE.Group as the refs see it: the scene instance that created it, its
\* position and its Euler rotation.  A material: its instance and its color.
Group(i, p, r) == [inst |-> i, position |-> p, rotation |-> r]
Material(i, hex) == [inst |-> i, color |-> hex]

\* useRef({}) : no slot is set.
EmptyJointGroups == [j \in JointNames |-> None]
EmptyMaterials == [m \in MaterialNames |-> None]

\* The five joint groups the build effect creates for instance i with angles a.
BadOffsetJointGroups(i, a) ==
  [j0 |-> Some(Group(i, Vec(0, DIMENSIONS.base.height, 0), Vec(0, degToRad(a.j0), 0))),
   j1 |-> Some(Group(i, Vec(0, 0, 0), Vec(degToRad(0 - a.j1), 0, 0))),
   j2 |-> Some(Group(i, Vec(0, 0, DIMENSIONS.segment2.length), Vec(degToRad(0 - a.j2), 0, 0))),
   j3 |-> Some(Group(i, Vec(0, 0, DIMENSIONS.segment2.length), Vec(degToRad(0 - a.j3), 0, 0))),
   j4 |-> Some(Group(i, Vec(0, 0, DIMENSIONS.segment3.length), Vec(degToRad(0 - a.j4), 0, 0)))]

BuildJointGroups(i, a) ==
  [j0 |-> Some(Group(i, Vec(0, DIMENSIONS.base.height, 0), Vec(0, degToRad(a.j0), 0))),
   j1 |-> Some(Group(i, Vec(0, 0, 0), Vec(degToRad(0 - a.j1), 0, 0))),
   j2 |-> Some(Group(i, Vec(0, 0, DIMENSIONS.segment1.length), Vec(degToRad(0 - a.j2), 0, 0))),
   j3 |-> Some(Group(i, Vec(0, 0, DIMENSIONS.segment2.length), Vec(degToRad(0 - a.j3), 0, 0))),
   j4 |-> Some(Group(i, Vec(0, 0, DIMENSIONS.segment3.length), Vec(degToRad(0 - a.j4), 0, 0)))]

\* The six MeshStandardMaterial objects, all created with getColorHex(color).
BuildMaterials(i, color) ==
  [m \in MaterialNames |-> Some(Material(i, getColorHex(color)))]

\* ------------------------------------------------------------ update effects
\* What the angle effect assigns to joint j: the axis and the value.
NegatedYawWrite(j, a) ==
  IF j = "j0" THEN [axis |-> "y", value |-> degToRad(0 - a.j0)]
  ELSE [axis |-> "x", value |-> degToRad(0 - a[j])]

RotationWrite(j, a) ==
  IF j = "j0" THEN [axis |-> "y", value |-> degToRad(a.j0)]
  ELSE [axis |-> "x", value |-> degToRad(0 - a[j])]

\* group.rotation.<axis> = value
AccumulateRotation(old, value) == old + value

AssignRotation(old, value) == value

WriteRotation(g, w) ==
  [g EXCEPT !.rotation[w.axis] = AssignRotation(g.rotation[w.axis], w.value)]

\* The angle-update effect on the two refs: refs.jointGroups is
\* jointGroupsRef.current, refs.materials is materialsRef.current.
CreatingApplyAngles(refs, ja) ==
  IF ja = None THEN refs
  ELSE [refs EXCEPT !.jointGroups =
          [j \in JointNames |->
             Some(WriteRotation(
                    IF refs.jointGroups[j] = None
                    THEN Group(0, Vec(0, 0, 0), Vec(0, 0, 0))
                    ELSE refs.jointGroups[j][1],
                    RotationWrite(j, ja[1])))]]

applyAngles(refs, ja) ==
  IF ja = None THEN refs
  ELSE [refs EXCEPT !.jointGroups =
          [j \in JointNames |->
             IF refs.jointGroups[j] = None THEN None
             ELSE Some(WriteRotation(refs.jointGroups[j][1], RotationWrite(j, ja[1])))]]

\* The color-update effect on the two refs.
SkipJointsApplyColor(refs, color) ==
  IF ~Truthy(color) THEN refs
  ELSE [refs EXCEPT !.materials =
          [m \in MaterialNames |->
             IF refs.materials[m] = None \/ m = "joints" THEN refs.materials[m]
             ELSE Some([refs.materials[m][1] EXCEPT !.color = getColorHex(color)])]]

ResetPoseApplyColor(refs, color) ==
  IF ~Truthy(color) THEN refs
  ELSE [jointGroups |->
          [j \in JointNames |->
             IF refs.jointGroups[j] = None THEN None
             ELSE Some(WriteRotation(refs.jointGroups[j][1], RotationWrite(j, HOME_POSE)))],
        materials |->
          [m \in MaterialNames |->
             IF refs.materials[m] = None THEN None
             ELSE Some([refs.materials[m][1] EXCEPT !.color = getColorHex(color)])]]

applyColor(refs, color) ==
  IF ~Truthy(color) THEN refs
  ELSE [refs EXCEPT !.materials =
          [m \in MaterialNames |->
             IF refs.materials[m] = None THEN None
             ELSE Some([refs.materials[m][1] EXCEPT !.color = getColorHex(color)])]]

\* ------------------------------------------------------------ kinematics
\* Math.cos and Math.sin at the quarter turns, the only rotations whose
\* matrix entries are integers; a rotation value r is a quarter turn when it
\* is degToRad(90*k).
QuarterRange == (0 - 4) .. 4
IsQuarter(r) == \E k \in QuarterRange : degToRad(90 * k) = r
QuarterOf(r) == CHOOSE k \in QuarterRange : degToRad(90 * k) = r
CosQ(r) == LET k == QuarterOf(r) % 4 IN
           CASE k = 0 -> 1 [] k = 1 -> 0 [] k = 2 -> 0 - 1 [] OTHER -> 0
SinQ(r) == LET k == QuarterOf(r) % 4 IN
           CASE k = 0 -> 0 [] k = 1 -> 1 [] k = 2 -> 0 [] OTHER -> 0 - 1

RotX(r, v) == Vec(v.x, v.y * CosQ(r) - v.z * SinQ(r), v.y * SinQ(r) + v.z * CosQ(r))
RotY(r, v) == Vec(v.x * CosQ(r) + v.z * SinQ(r), v.y, v.z * CosQ(r) - v.x * SinQ(r))
RotZ(r, v) == Vec(v.x * CosQ(r) - v.y * SinQ(r), v.x * SinQ(r) + v.y * CosQ(r), v.z)
VAdd(a, b) == Vec(a.x + b.x, a.y + b.y, a.z + b.z)

\* Object3D local-to-parent transform with Euler order XYZ: rotate, then
\* translate by the object's position.
ToParent(position, rotation, v) ==
  VAdd(position, RotX(rotation.x, RotY(rotation.y, RotZ(rotation.z, v))))

\* segment4: a cylinder of height h along its own +Y, rotated by PI/2 about X
\* and centred at z = h/2 of the j4 group.  Its far end in the j4 frame:
PipetteTipLocal ==
  ToParent(Vec(0, 0, DIMENSIONS.segment4.height \div 2),
           Vec(degToRad(90), 0, 0),
           Vec(0, DIMENSIONS.segment4.height \div 2, 0))

\* The parent chain the build effect wires: j4 in j3 in j2 in j1 in j0 in
\* robotArm (identity) in the scene.
FrameToParent(jg, j, v) == ToParent(jg[j][1].position, jg[j][1].rotation, v)

PipetteTipWorld(jg) ==
  FrameToParent(jg, "j0",
    FrameToParent(jg, "j1",
      FrameToParent(jg, "j2",
        FrameToParent(jg, "j3",
          FrameToParent(jg, "j4", PipetteTipLocal)))))

\* ------------------------------------------------------------ state
VARIABLES
  phase,          \* "initial" (not rendered yet), "mounted", "unmounted"
  isClient,       \* useState(false)
  mountRef,       \* TRUE when mountRef.current is the container div
  jointAngles,    \* the jointAngles prop: None or Some(pose)
  color,          \* the color prop (after the 'red' default)
  size,           \* the container's clientWidth and clientHeight
  domChildren,    \* instances whose canvas is a child of the container
  frameRef,       \* frameRef.current
  rafNext,        \* the id the next requestAnimationFrame returns
  rafPending,     \* scheduled frame callbacks: [id, inst]
  jointGroupsRef, \* jointGroupsRef.current
  materialsRef,   \* materialsRef.current
  inst,           \* the scene instances built so far, by build number
  cleanupFor,     \* the instance whose cleanup the build effect has registered, 0 if none
  staleWrites,    \* instances whose handles an update effect wrote after their teardown
  lastEvent,      \* what the last step did
  opsBefore,      \* the refs before each of the last two updater calls
  opsLog          \* the last two updater calls

vars ==
  <<phase, isClient, mountRef, jointAngles, color, size, domChildren, frameRef,
    rafNext, rafPending, jointGroupsRef, materialsRef, inst, cleanupFor,
    staleWrites, lastEvent, opsBefore, opsLog>>

\* The component's state as one record, so that the steps of one commit compose.
World ==
  [phase |-> phase, isClient |-> isClient, mountRef |-> mountRef,
   jointAngles |-> jointAngles, color |-> color, size |-> size,
   domChildren |-> domChildren, frameRef |-> frameRef, rafNext |-> rafNext,
   rafPending |-> rafPending, jointGroupsRef |-> jointGroupsRef,
   materialsRef |-> materialsRef, inst |-> inst, cleanupFor |-> cleanupFor,
   staleWrites |-> staleWrites, lastEvent |-> lastEvent]

Becomes(w) ==
  /\ phase' = w.phase
  /\ isClient' = w.isClient
  /\ mountRef' = w.mountRef
  /\ jointAngles' = w.jointAngles
  /\ color' = w.color
  /\ size' = w.size
  /\ domChildren' = w.domChildren
  /\ frameRef' = w.frameRef
  /\ rafNext' = w.rafNext
  /\ rafPending' = w.rafPending
  /\ jointGroupsRef' = w.jointGroupsRef
  /\ materialsRef' = w.materialsRef
  /\ inst' = w.inst
  /\ cleanupFor' = w.cleanupFor
  /\ staleWrites' = w.staleWrites
  /\ lastEvent' = w.lastEvent

Sizes ==
  {[width |-> 0, height |-> 0], [width |-> 800, height |-> 0],
   [width |-> 800, height |-> 600]}

\* What one step did: the instance that was live before it, the instances it
\* tore down and built, whether a cleanup threw, and the instances whose
\* scene renderer.render drew.
Event(kind) ==
  [kind |-> kind, live |-> 0, tornDown |-> {}, built |-> {}, threw |-> FALSE,
   rendered |-> {}]

InitialWorld(ja, c, sz) ==
  [phase |-> "initial", isClient |-> FALSE, mountRef |-> FALSE,
   jointAngles |-> ja, color |-> c, size |-> sz,
   domChildren |-> {}, frameRef |-> 0, rafNext |-> 1, rafPending |-> {},
   jointGroupsRef |-> EmptyJointGroups, materialsRef |-> EmptyMaterials,
   inst |-> <<>>, cleanupFor |-> 0, staleWrites |-> {}, lastEvent |-> Event("init")]

\* ------------------------------------------------------------ build effect
\* The dispose() calls of the cleanup function, in order.
CleanupDisposes ==
  <<"controls", "baseGeometry", "segment1Geometry", "segment2Geometry",
    "segment3Geometry", "segment4Geometry", "shoulderJointGeometry",
    "elbowJointGeometry", "wristJointGeometry", "pipetteJointGeometry",
    "baseMaterial", "segment1Material", "segment2Material", "segment3Material",
    "pipetteMaterial", "jointMaterial", "renderer">>

Range(seq) == {seq[k] : k \in 1 .. Len(seq)}

\* jointGroupsRef.current.jN = jNGroup, for the five joints.
KeepFirstJointGroups(old, new) == IF old = EmptyJointGroups THEN new ELSE old

StoreJointGroups(old, new) == new

\* animate() of instance i: request the next frame, keep its id in frameRef,
\* update the controls and render the scene.
AnimateKeepsFirstId(w, i) ==
  [w EXCEPT
     !.frameRef = IF @ = 0 THEN w.rafNext ELSE @,
     !.rafNext = @ + 1,
     !.rafPending = @ \cup {[id |-> w.rafNext, inst |-> i]},
     !.lastEvent.rendered = @ \cup {i}]

Animate(w, i) ==
  [w EXCEPT
     !.frameRef = w.rafNext,
     !.rafNext = @ + 1,
     !.rafPending = @ \cup {[id |-> w.rafNext, inst |-> i]},
     !.lastEvent.rendered = @ \cup {i}]

\* The body of the build effect.  It returns early (registering no cleanup)
\* unless isClient is set and the container is mounted; it does not look at
\* the container's size.
BuildEffect(w) ==
  IF ~w.isClient \/ ~w.mountRef THEN [w EXCEPT !.cleanupFor = 0]
  ELSE
    LET i == Len(w.inst) + 1 IN
    Animate(
      [w EXCEPT
         !.inst = Append(@, [size |-> w.size, disposed |-> {}, tornDown |-> FALSE,
                             threw |-> FALSE, trace |-> <<>>]),
         !.domChildren = @ \cup {i},
         !.materialsRef = BuildMaterials(i, w.color),
         !.jointGroupsRef =
            StoreJointGroups(@, BuildJointGroups(i, currentAngles(w.jointAngles))),
         !.cleanupFor = i,
         !.lastEvent.built = @ \cup {i}],
      i)

\* The statements of the cleanup function, in order.
DisposeFirstSteps == CleanupDisposes \o <<"cancelAnimationFrame", "removeChild">>

CleanupSteps == <<"cancelAnimationFrame", "removeChild">> \o CleanupDisposes

\* One statement of the cleanup of instance i.  cancelAnimationFrame is
\* guarded by frameRef.current.  container and renderer.domElement are both
\* objects, so the guard before removeChild is always true; removeChild
\* throws when the canvas is not a child of the container.
CleanupStep(w, i, step) ==
  CASE step = "cancelAnimationFrame" ->
         IF w.frameRef # 0
         THEN [w EXCEPT
                 !.rafPending = {cb \in @ : cb.id # w.frameRef},
                 !.inst[i].trace = Append(@, step)]
         ELSE w
    [] step = "removeChild" ->
         IF i \in w.domChildren
         THEN [w EXCEPT
                 !.domChildren = @ \ {i},
                 !.inst[i].trace = Append(@, step)]
         ELSE [w EXCEPT
                 !.inst[i].threw = TRUE,
                 !.inst[i].trace = Append(@, "removeChild throws"),
                 !.lastEvent.threw = TRUE]
    [] OTHER ->
         [w EXCEPT
            !.inst[i].disposed = @ \cup {step},
            !.inst[i].trace = Append(@, step)]

\* The statements run one after the other; nothing runs after a throw.
RECURSIVE RunCleanup(_, _, _)
RunCleanup(w, i, steps) ==
  IF steps = <<>> \/ w.inst[i].threw THEN w
  ELSE RunCleanup(CleanupStep(w, i, Head(steps)), i, Tail(steps))

\* The cleanup function the build effect returned for instance i.
Cleanup(w, i) ==
  RunCleanup([w EXCEPT
                !.inst[i].tornDown = TRUE,
                !.cleanupFor = 0,
                !.lastEvent.tornDown = @ \cup {i}],
             i, CleanupSteps)

TornDown(w) == {i \in 1 .. Len(w.inst) : w.inst[i].tornDown}

Refs(w) == [jointGroups |-> w.jointGroupsRef, materials |-> w.materialsRef]

WithRefs(w, refs, written) ==
  [w EXCEPT !.jointGroupsRef = refs.jointGroups,
            !.materialsRef = refs.materials,
            !.staleWrites = @ \cup (written \cap TornDown(w))]

\* The angle-update effect, run by React.
AngleEffect(w) ==
  WithRefs(w, applyAngles(Refs(w), w.jointAngles),
           IF w.jointAngles = None THEN {}
           ELSE {w.jointGroupsRef[j][1].inst :
                   j \in {k \in JointNames : w.jointGroupsRef[k] # None}})

\* The color-update effect, run by React.
ColorEffect(w) ==
  WithRefs(w, applyColor(Refs(w), w.color),
           IF ~Truthy(w.color) THEN {}
           ELSE {w.materialsRef[m][1].inst :
                   m \in {k \in MaterialNames : w.materialsRef[k] # None}})

\* ------------------------------------------------------------ React
\* The component leaves the tree: the registered cleanup runs and React
\* clears the DOM ref.
Unmounted(w) ==
  LET w1 == IF w.cleanupFor # 0 THEN Cleanup(w, w.cleanupFor) ELSE w
  IN [w1 EXCEPT !.phase = "unmounted", !.mountRef = FALSE]

\* One commit: the cleanups of the effects whose dependencies changed, then
\* their bodies in declaration order (build, angles, color).  An error thrown by
\* a cleanup is caught by React, the commit goes on, and with no error boundary
\* in the tree React then unmounts it.
Commit(w, kind, runBuild, runAngles, runColor) ==
  LET w0 == [w EXCEPT !.lastEvent = [Event(kind) EXCEPT !.live = w.cleanupFor]]
      w1 == IF runBuild /\ w0.cleanupFor # 0 THEN Cleanup(w0, w0.cleanupFor) ELSE w0
      w2 == IF runBuild THEN BuildEffect(w1) ELSE w1
      w3 == IF runAngles THEN AngleEffect(w2) ELSE w2
      w4 == IF runColor THEN ColorEffect(w3) ELSE w3
  IN IF w4.lastEvent.threw THEN Unmounted(w4) ELSE w4

\* A commit that reaches the body of the build effect with the guard open
\* builds an instance and requests a frame.
CanBuild(w) == Len(w.inst) < MaxBuilds /\ w.rafNext <= MaxRaf

\* First render: isClient is false, the "Loading" div carries no ref, and all
\* four effects run; the first one calls setIsClient(true).
Mount ==
  /\ phase = "initial"
  /\ Becomes(Commit([World EXCEPT !.phase = "mounted"], "mount", TRUE, TRUE, TRUE))
  /\ UNCHANGED <<opsBefore, opsLog>>

\* The render scheduled by setIsClient(true): the container div is mounted and
\* the build effect (deps [isClient, jointAngles, color]) runs again.
ClientCommit ==
  /\ phase = "mounted"
  /\ ~isClient
  /\ CanBuild(World)
  /\ Becomes(Commit([World EXCEPT !.isClient = TRUE, !.mountRef = TRUE],
                    "client", TRUE, FALSE, FALSE))
  /\ UNCHANGED <<opsBefore, opsLog>>

\* The parent renders with a new jointAngles value.  A pose is a new object
\* each time (slider.tsx builds { ...angles, [joint]: value }), so the
\* dependency changed even when the numbers did not.
AnglesChange(ja) ==
  /\ phase = "mounted"
  /\ ~(ja = None /\ jointAngles = None)
  /\ isClient => CanBuild(World)
  /\ Becomes(Commit([World EXCEPT !.jointAngles = ja], "angles", TRUE, TRUE, FALSE))
  /\ UNCHANGED <<opsBefore, opsLog>>

\* The parent renders with another color.
ColorChange(c) ==
  /\ phase = "mounted"
  /\ c # color
  /\ isClient => CanBuild(World)
  /\ Becomes(Commit([World EXCEPT !.color = c], "color", TRUE, FALSE, TRUE))
  /\ UNCHANGED <<opsBefore, opsLog>>

Unmount ==
  /\ phase = "mounted"
  /\ Becomes(Unmounted([World EXCEPT !.lastEvent =
                          [Event("unmount") EXCEPT !.live = cleanupFor]]))
  /\ UNCHANGED <<opsBefore, opsLog>>

\* A scheduled frame callback runs: animate() of its instance requests the
\* next frame, stores its id and renders.
Frame(cb) ==
  /\ cb \in rafPending
  /\ rafNext <= MaxRaf
  /\ Becomes(Animate([World EXCEPT
                        !.rafPending = @ \ {cb},
                        !.lastEvent = [Event("frame") EXCEPT !.live = cleanupFor]],
                     cb.inst))
  /\ UNCHANGED <<opsBefore, opsLog>>

\* The host environment removes the canvas from the container behind the
\* component's back.
HostRemovesCanvas(i) ==
  /\ i \in domChildren
  /\ Becomes([World EXCEPT
                !.domChildren = @ \ {i},
                !.lastEvent = [Event("hostRemove") EXCEPT !.live = cleanupFor]])
  /\ UNCHANGED <<opsBefore, opsLog>>

\* Layout changes the container's size.
Resize(sz) ==
  /\ phase = "mounted"
  /\ sz # size
  /\ Becomes([World EXCEPT
                !.size = sz,
                !.lastEvent = [Event("resize") EXCEPT !.live = cleanupFor]])
  /\ UNCHANGED <<opsBefore, opsLog>>

Init ==
  /\ \E ja \in AngleProps, c \in Colors, sz \in Sizes :
       LET w == InitialWorld(ja, c, sz) IN
       /\ phase = w.phase
       /\ isClient = w.isClient
       /\ mountRef = w.mountRef
       /\ jointAngles = w.jointAngles
       /\ color = w.color
       /\ size = w.size
       /\ domChildren = w.domChildren
       /\ frameRef = w.frameRef
       /\ rafNext = w.rafNext
       /\ rafPending = w.rafPending
       /\ jointGroupsRef = w.jointGroupsRef
       /\ materialsRef = w.materialsRef
       /\ inst = w.inst
       /\ cleanupFor = w.cleanupFor
       /\ staleWrites = w.staleWrites
       /\ lastEvent = w.lastEvent
  /\ opsBefore = <<>>
  /\ opsLog = <<>>

Next ==
  \/ Mount
  \/ ClientCommit
  \/ \E ja \in AngleProps : AnglesChange(ja)
  \/ \E c \in Colors : ColorChange(c)
  \/ Unmount
  \/ \E cb \in rafPending : Frame(cb)
  \/ \E i \in domChildren : HostRemovesCanvas(i)
  \/ \E sz \in Sizes : Resize(sz)

Spec == Init /\ [][Next]_vars

\* ------------------------------------------------------------ the updater alone
\* The two update effects driven directly, in any order and with any argument,
\* on the handles of one built scene.
FullSize == [width |-> 800, height |-> 600]

\* The component after its first two commits, with props ja and c.
BuiltWorld(ja, c) ==
  Commit([Commit([InitialWorld(ja, c, FullSize) EXCEPT !.phase = "mounted"],
                 "mount", TRUE, TRUE, TRUE)
            EXCEPT !.isClient = TRUE, !.mountRef = TRUE],
         "client", TRUE, FALSE, FALSE)

LastTwo(seq) == IF Len(seq) > 2 THEN SubSeq(seq, Len(seq) - 1, Len(seq)) ELSE seq

Call(op, ja, c) == [op |-> op, angles |-> ja, color |-> c]

Logged(call) ==
  /\ opsBefore' = LastTwo(Append(opsBefore, Refs(World)))
  /\ opsLog' = LastTwo(Append(opsLog, call))

OpApplyAngles(ja) ==
  /\ Becomes(AngleEffect([World EXCEPT !.jointAngles = ja,
                            !.lastEvent = [Event("applyAngles") EXCEPT !.live = cleanupFor]]))
  /\ Logged(Call("applyAngles", ja, ""))

OpApplyColor(c) ==
  /\ Becomes(ColorEffect([World EXCEPT !.color = c,
                            !.lastEvent = [Event("applyColor") EXCEPT !.live = cleanupFor]]))
  /\ Logged(Call("applyColor", None, c))

InitOps ==
  /\ \E ja \in AngleProps, c \in Colors :
       LET w == BuiltWorld(ja, c) IN
       /\ phase = w.phase
       /\ isClient = w.isClient
       /\ mountRef = w.mountRef
       /\ jointAngles = w.jointAngles
       /\ color = w.color
       /\ size = w.size
       /\ domChildren = w.domChildren
       /\ frameRef = w.frameRef
       /\ rafNext = w.rafNext
       /\ rafPending = w.rafPending
       /\ jointGroupsRef = w.jointGroupsRef
       /\ materialsRef = w.materialsRef
       /\ inst = w.inst
       /\ cleanupFor = w.cleanupFor
       /\ staleWrites = w.staleWrites
       /\ lastEvent = w.lastEvent
  /\ opsBefore = <<>>
  /\ opsLog = <<>>

NextOps ==
  \/ \E ja \in AngleProps : OpApplyAngles(ja)
  \/ \E c \in Colors : OpApplyColor(c)

SpecOps == InitOps /\ [][NextOps]_vars

\* ------------------------------------------------------------ claims: the updater
LastCall == opsLog[Len(opsLog)]
BeforeLast == opsBefore[Len(opsBefore)]
NowRefs == Refs(World)

\* deg * pi / 180 for deg >= 0, written out.
RadOf(deg) == (deg * PiMicro) \div 180

\* C2: after applyAngles(A) on a built scene, j0's rotation about Y is
\* +A.j0 degrees in radians, each of j1..j4 has rotation about X equal to
\* -A.jk degrees in radians, and every other axis and every position is what
\* it was before the call.
C2_ApplyAnglesReadBack ==
  (opsLog # <<>> /\ LastCall.op = "applyAngles" /\ LastCall.angles # None) =>
    LET A == LastCall.angles[1] IN
    \A j \in JointNames :
      LET g == jointGroupsRef[j][1]
          b == BeforeLast.jointGroups[j][1]
      IN /\ jointGroupsRef[j] # None
         /\ g.position = b.position
         /\ g.inst = b.inst
         /\ IF j = "j0"
            THEN /\ g.rotation.y = RadOf(A.j0)
                 /\ g.rotation.x = b.rotation.x
                 /\ g.rotation.z = b.rotation.z
            ELSE /\ g.rotation.x = 0 - RadOf(A[j])
                 /\ g.rotation.y = b.rotation.y
                 /\ g.rotation.z = b.rotation.z

\* An applyAngles call with five different non-zero angles that changed the
\* yaw to a positive value.
C2_Witness ==
  /\ opsLog # <<>>
  /\ LastCall = Call("applyAngles", Some(Mixed), "")
  /\ jointGroupsRef.j0[1].rotation.y > 0
  /\ jointGroupsRef.j4[1].rotation.x < 0
  /\ BeforeLast.jointGroups # jointGroupsRef

\* The fixed RGB value of each named color.
NamedRGB ==
  [red |-> 16711680, blue |-> 26367, green |-> 43520, black |-> 3355443,
   white |-> 16777215]
GrayRGB == 6710886

RGBOf(c) == IF c \in NamedColors THEN NamedRGB[c] ELSE GrayRGB

AllMaterialsAre(hex) ==
  \A m \in MaterialNames : materialsRef[m] # None /\ materialsRef[m][1].color = hex

C7_Idempotent ==
  (Len(opsLog) = 2 /\ opsLog[1] = opsLog[2]) => NowRefs = opsBefore[2]

\* applyAngles(Mixed) twice, the first call having changed the rotations.
C7_Witness ==
  /\ Len(opsLog) = 2
  /\ opsLog[1] = Call("applyAngles", Some(Mixed), "")
  /\ opsLog[2] = opsLog[1]
  /\ opsBefore[1] # opsBefore[2]

\* C8: applyAngles leaves every material as it was, applyColor leaves every
\* joint group as it was, and one call of each gives the same handles in
\* either order.
C8_OrderIndependent ==
  /\ (opsLog # <<>> /\ LastCall.op = "applyAngles") =>
        materialsRef = BeforeLast.materials
  /\ (opsLog # <<>> /\ LastCall.op = "applyColor") =>
        jointGroupsRef = BeforeLast.jointGroups
  /\ (Len(opsLog) = 2 /\ opsLog[1].op = "applyAngles" /\ opsLog[2].op = "applyColor") =>
        NowRefs = applyAngles(applyColor(opsBefore[1], opsLog[2].color), opsLog[1].angles)
  /\ (Len(opsLog) = 2 /\ opsLog[1].op = "applyColor" /\ opsLog[2].op = "applyAngles") =>
        NowRefs = applyColor(applyAngles(opsBefore[1], opsLog[2].angles), opsLog[1].color)

\* applyAngles then applyColor, each having changed something.
C8_Witness ==
  /\ Len(opsLog) = 2
  /\ opsLog[1] = Call("applyAngles", Some(Mixed), "")
  /\ opsLog[2] = Call("applyColor", None, "green")
  /\ opsBefore[1].jointGroups # opsBefore[2].jointGroups
  /\ opsBefore[2].materials # materialsRef

\* All five joint groups exist and hold the rotations of angles 0,0,0,0,0.
ZeroAngles ==
  \A j \in JointNames :
    jointGroupsRef[j] # None /\ jointGroupsRef[j][1].rotation = Vec(0, 0, 0)

\* C9 as stated: with all angles 0 the pipette tip is at
\* (0, base.height + seg1 + seg2 + seg3 + seg4.height, 0) = (0, 1.6, 0).
C9_Original ==
  ZeroAngles =>
    PipetteTipWorld(jointGroupsRef) =
      Vec(0,
          DIMENSIONS.base.height + DIMENSIONS.segment1.length
            + DIMENSIONS.segment2.length + DIMENSIONS.segment3.length
            + DIMENSIONS.segment4.height,
          0)

\* C9 amended: with all angles 0 the arm lies along +Z at the height of the
\* base's top: the pipette tip is at
\* (0, base.height, seg1 + seg2 + seg3 + seg4.height) = (0, 0.2, 1.4).
C9_TipAtZeroPose ==
  ZeroAngles =>
    /\ PipetteTipWorld(jointGroupsRef) =
         Vec(0,
             DIMENSIONS.base.height,
             DIMENSIONS.segment1.length + DIMENSIONS.segment2.length
               + DIMENSIONS.segment3.length + DIMENSIONS.segment4.height)
    /\ PipetteTipWorld(jointGroupsRef) = Vec(0, 200, 1400)

\* The build effect has just built a scene from the zero pose.
C9_Witness ==
  /\ ZeroAngles
  /\ lastEvent.kind = "client"
  /\ lastEvent.built # {}
  /\ jointAngles = Some(ZeroPose)

\* ------------------------------------------------------------ claims: the lifecycle
Instances == 1 .. Len(inst)

\* Every instance was built from a container of non-zero size, and no cleanup threw.
WellSizedNoThrow ==
  \A i \in Instances :
    inst[i].size.width # 0 /\ inst[i].size.height # 0 /\ ~inst[i].threw

\* C1 as stated: once an instance is built, a jointAngles or color change
\* tears nothing down and builds nothing: the live instance stays the same.
\* (Stated for runs with a well-sized container in which no cleanup threw.)
C1_NoRebuildOnPropChange ==
  (lastEvent.kind \in {"angles", "color"} /\ lastEvent.live # 0 /\ WellSizedNoThrow) =>
    /\ lastEvent.tornDown = {}
    /\ lastEvent.built = {}
    /\ cleanupFor = lastEvent.live

\* The instances of the handles the two refs hold.
RefInstances ==
  {jointGroupsRef[j][1].inst : j \in {k \in JointNames : jointGroupsRef[k] # None}}
    \cup {materialsRef[m][1].inst : m \in {k \in MaterialNames : materialsRef[k] # None}}

\* C4: no update effect ever wrote to a handle of an instance that had been
\* torn down; after a commit that ran an update effect on a mounted scene,
\* the handles in the refs are those of the live instance.
C4_NoWriteAfterTeardown ==
  /\ staleWrites = {}
  /\ (lastEvent.kind \in {"angles", "color"} /\ phase = "mounted" /\ isClient) =>
        /\ RefInstances = {cleanupFor}
        /\ ~inst[cleanupFor].tornDown

\* The angle effect ran in a commit that tore an instance down, and wrote the
\* handles of the instance built in that commit.
C4_Witness ==
  /\ lastEvent.kind = "angles"
  /\ lastEvent.tornDown # {}
  /\ jointAngles = Some(Mixed)
  /\ phase = "mounted"
  /\ jointGroupsRef.j0 # None
  /\ jointGroupsRef.j0[1].inst = cleanupFor
  /\ jointGroupsRef.j0[1].inst \notin lastEvent.tornDown

\* C5 as stated: no instance is ever built from a container whose clientWidth
\* or clientHeight is 0.
C5_BuildDeferredWhileZeroSize ==
  \A i \in Instances : inst[i].size.width # 0 /\ inst[i].size.height # 0

\* C6 as stated: a teardown never raises, and completes with every dispose of
\* the cleanup done, also when the canvas was no longer in the container.
\* (Stated for instances built from a well-sized container.)
C6_TeardownNeverRaises ==
  \A i \in Instances :
    (inst[i].tornDown /\ inst[i].size.width # 0 /\ inst[i].size.height # 0) =>
      /\ ~inst[i].threw
      /\ Range(CleanupDisposes) \subseteq inst[i].disposed

\* C10 as stated: once an instance's cleanup has run, everything its build
\* acquired is disposed.  (Stated for runs with a well-sized container in
\* which no cleanup threw.)
C10_TeardownReleasesAll ==
  WellSizedNoThrow =>
    \A i \in Instances : inst[i].tornDown => Acquired \subseteq inst[i].disposed

\* ------------------------------------------------------------ claims: teardown and frames
\* The dispose() calls of the cleanup, as a set.
DisposeSteps == Range(CleanupDisposes)

\* C11: every teardown cancels the pending frame callback first, then
\* detaches the canvas, and only then disposes: the first step of its trace
\* is cancelAnimationFrame, the second is removeChild (which may throw), every
\* later step is a dispose, and a teardown that did not throw ran them all.
C11_TeardownOrder ==
  \A i \in Instances :
    inst[i].tornDown =>
      LET tr == inst[i].trace IN
      /\ Len(tr) >= 2
      /\ tr[1] = "cancelAnimationFrame"
      /\ tr[2] \in {"removeChild", "removeChild throws"}
      /\ \A k \in 3 .. Len(tr) : tr[k] \in DisposeSteps
      /\ ~inst[i].threw =>
           /\ tr[2] = "removeChild"
           /\ DisposeSteps = {tr[k] : k \in 3 .. Len(tr)}
           /\ tr[Len(tr)] = "renderer"

\* A rebuild tore an instance down completely, with all three stages run.
C11_Witness ==
  /\ lastEvent.kind = "color"
  /\ \E i \in lastEvent.tornDown :
       /\ ~inst[i].threw
       /\ Len(inst[i].trace) = Len(CleanupSteps)
       /\ inst[i].disposed = DisposeSteps

\* C12: while an instance is live, frameRef is the id of its one pending frame
\* callback; so no callback of a torn-down instance is ever pending, and no
\* frame renders a torn-down instance.
C12_NoFrameAfterTeardown ==
  /\ cleanupFor # 0 => rafPending = {[id |-> frameRef, inst |-> cleanupFor]}
  /\ \A cb \in rafPending : ~inst[cb.inst].tornDown
  /\ lastEvent.kind = "frame" => \A i \in lastEvent.rendered : ~inst[i].tornDown

\* An instance rendered a frame, was then torn down by unmount, and nothing
\* is left pending.
C12_Witness ==
  /\ lastEvent.kind = "unmount"
  /\ lastEvent.tornDown = {1}
  /\ Len(inst) = 1
  /\ frameRef = 2
  /\ rafPending = {}

\* The rotation of joint j for the angle tuple a: +a.j0 about Y for j0,
\* -a.jk about X for the others.
PoseRotation(j, a) ==
  IF j = "j0" THEN Vec(0, RadOf(a.j0), 0) ELSE Vec(0 - RadOf(a[j]), 0, 0)

\* The handles in the refs are those of instance i, the rotations are those
\* of the one tuple a and the six colors are hex.
SceneShows(i, a, hex) ==
  /\ \A j \in JointNames :
       /\ jointGroupsRef[j] # None
       /\ jointGroupsRef[j][1].inst = i
       /\ jointGroupsRef[j][1].rotation = PoseRotation(j, a)
  /\ \A m \in MaterialNames :
       /\ materialsRef[m] # None
       /\ materialsRef[m][1].inst = i
       /\ materialsRef[m][1].color = hex

\* C13: whenever a frame callback renders the live instance, the five
\* rotations are those of one angle tuple and the six colors are one color,
\* and they are those of the props of the last commit (the home pose when
\* jointAngles is not supplied).
C13_FrameSeesWholeUpdate ==
  (lastEvent.kind = "frame" /\ cleanupFor # 0 /\ cleanupFor \in lastEvent.rendered) =>
    SceneShows(cleanupFor,
               IF jointAngles = None THEN HOME_POSE ELSE jointAngles[1],
               RGBOf(color))

\* A frame rendered the second instance after a jointAngles change.
C13_Witness ==
  /\ lastEvent.kind = "frame"
  /\ lastEvent.rendered = {2}
  /\ cleanupFor = 2
  /\ jointAngles = Some(Mixed)
  /\ color = "green"
  /\ SceneShows(2, Mixed, NamedRGB.green)

NonZeroSize(i) == inst[i].size.width # 0 /\ inst[i].size.height # 0

\* C14 as stated: the container never holds two canvases, no two renderers
\* are undisposed at once, and every build that follows a live instance comes
\* after that instance's complete teardown (cleanup did not throw and ran
\* every one of its disposes).  (Stated for instances built from a well-sized
\* container.)
C14_OneInstanceAlive ==
  (\A i \in Instances : NonZeroSize(i)) =>
    /\ Cardinality(domChildren) <= 1
    /\ Cardinality({i \in Instances : "renderer" \notin inst[i].disposed}) <= 1
    /\ (lastEvent.built # {} /\ lastEvent.live # 0) =>
          /\ inst[lastEvent.live].tornDown
          /\ ~inst[lastEvent.live].threw
          /\ DisposeSteps \subseteq inst[lastEvent.live].disposed

\* C15 as stated: when an instance has been torn down and no instance is
\* live, neither ref holds a handle of a torn-down instance.  (Stated for runs
\* with a well-sized container in which no cleanup threw.)
C15_NoStaleHandles ==
  (cleanupFor = 0 /\ WellSizedNoThrow) =>
    RefInstances \cap {i \in Instances : inst[i].tornDown} = {}

\* C16: the angle effect run before any scene is built (first mount, or a
\* jointAngles change while isClient is false) leaves both refs empty, builds
\* nothing and raises nothing; and run with jointAngles not supplied on a
\* built scene it leaves the rotations the build gave (the home pose).
C16_ApplyAnglesNoOpWithoutHandles ==
  /\ ~isClient =>
        /\ jointGroupsRef = EmptyJointGroups
        /\ materialsRef = EmptyMaterials
        /\ inst = <<>>
        /\ staleWrites = {}
        /\ ~lastEvent.threw
  /\ (lastEvent.kind = "angles" /\ jointAngles = None /\ cleanupFor # 0) =>
        \A j \in JointNames :
          /\ jointGroupsRef[j] # None
          /\ jointGroupsRef[j][1].rotation = PoseRotation(j, HOME_POSE)

\* The angle effect ran with a supplied pose before the scene was built.
C16_Witness ==
  /\ lastEvent.kind \in {"mount", "angles"}
  /\ ~isClient
  /\ jointAngles = Some(Mixed)
  /\ jointGroupsRef = EmptyJointGroups

====
